---- MODULE Spec2Model ----
(***************************************************************************)
(* Verification model of days/day09 (red/green tile grid): the TileGrid    *)
(* lattice, the boundary materialisation, the inside-direction marking of  *)
(* red tiles, the loop filling and the search for the largest rectangle;   *)
(* of the Dial of days/day01 and of the BatteryBank of days/day03.         *)
(* Colours and inside directions are strings named after the enum          *)
(* variants of the source.  Loop indices are 0-based as in the source.     *)
(***************************************************************************)
EXTENDS Integers, Naturals, Sequences, FiniteSets, TLC

\* days/day09: the state of main
VARIABLES points, grid, pc, i, a, next, max_area, overflow_checks, panic
\* days/day01: the Dial, and the record of the operations applied to it
VARIABLES dial, ops
\* days/day03: the line read, the BatteryBank made of it, the argument and
\* the result of max_joltage
VARIABLES line, bank, battery_count, joltage

day09_vars == <<points, grid, pc, i, a, next, max_area, overflow_checks, panic>>
day01_vars == <<dial, ops>>
day03_vars == <<line, bank, battery_count, joltage>>

vars == <<day09_vars, day01_vars, day03_vars>>

(***************************************************************************)
(* Bounds of the model.                                                    *)
(***************************************************************************)
\* enumerated polygons have their vertices on 0..MaxCoord x 0..MaxCoord
MaxCoord == 3
\* enumerated polygons have at most 2 * MaxTurns vertices
MaxTurns == 3
\* unconstrained point lists are drawn from 0..MaxFree x 0..MaxFree
MaxFree == 1
\* and have at most MaxFreeLen points
MaxFreeLen == 3

\* the largest coordinate of a cell in the runs of the TileGrid on its own
MaxTile == 1

\* u64::MAX.  TLC's integers are 32 bits wide, so the largest of them stands
\* for 2^64 - 1; every coordinate of the model is far below both.
U64_MAX == 2147483647

\* a dial receives at most MaxOps operations
MaxOps == 3
\* a battery bank is read from a line of at most MaxBankLen characters
MaxBankLen == 4
\* max_joltage is asked for at most MaxBatteryCount batteries
MaxBatteryCount == 5

(***************************************************************************)
(* days/day01: Dial                                                        *)
(***************************************************************************)
Dial_new(len) == [zero_count |-> 0, position |-> 50, len |-> len]

Dial_new_default == Dial_new(100)

\* mutant: passing through 0 counts as resting at 0
Dial_left_counting_passes(self, clicks) ==
    LET d == clicks % self.len
        position == IF d <= self.position
                    THEN self.position - d
                    ELSE self.len + self.position - d
    IN  [self EXCEPT !.position = position,
                     !.zero_count = IF (position = 0) \/ (d > self.position)
                                    THEN @ + 1 ELSE @]

Dial_left(self, clicks) ==
    LET d == clicks % self.len
        position == IF d <= self.position
                    THEN self.position - d
                    ELSE self.len + self.position - d
    IN  [self EXCEPT !.position = position,
                     !.zero_count = IF position = 0 THEN @ + 1 ELSE @]

Dial_right(self, clicks) ==
    LET d == clicks % self.len
        position == IF d <= ((self.len - 1) - self.position)
                    THEN self.position + d
                    ELSE self.position + d - self.len
    IN  [self EXCEPT !.position = position,
                     !.zero_count = IF position = 0 THEN @ + 1 ELSE @]

(***************************************************************************)
(* days/day03: BatteryBank.  A text is a sequence of characters; None and  *)
(* Some(v) are the empty and the one-element sequence.                     *)
(***************************************************************************)
None == << >>
Some(v) == <<v>>

\* char::is_digit(10) and char::to_digit(10) on the characters of the model
is_digit(c) == c \in {"0", "1", "2", "3", "4", "5", "6", "7", "8", "9"}
to_digit(c) ==
    CASE c = "0" -> 0 [] c = "1" -> 1 [] c = "2" -> 2 [] c = "3" -> 3
      [] c = "4" -> 4 [] c = "5" -> 5 [] c = "6" -> 6 [] c = "7" -> 7
      [] c = "8" -> 8 [] c = "9" -> 9

\* the number of leading characters of text that are digits (the loop of
\* BatteryBank::new breaks at the first other character)
RECURSIVE digits_before_break(_, _)
digits_before_break(text, ii) ==
    IF (ii >= Len(text)) \/ ~is_digit(text[ii + 1]) THEN ii
    ELSE digits_before_break(text, ii + 1)

BatteryBank_new(text) ==
    [joltage_by_idx |-> [idx \in 0..(digits_before_break(text, 0) - 1) |->
                            to_digit(text[idx + 1])]]

\* the for loop of find_first_largest; idx = -1 stands for u32::MAX
RECURSIVE first_largest_loop(_, _, _, _, _)
first_largest_loop(self, idx, j_max, k, idx_to) ==
    IF k >= idx_to THEN idx
    ELSE LET j == self.joltage_by_idx[k]
         IN  IF j > j_max
             THEN first_largest_loop(self, k, j, k + 1, idx_to)
             ELSE first_largest_loop(self, idx, j_max, k + 1, idx_to)

find_first_largest(self, idx_from, idx_to) ==
    LET idx == first_largest_loop(self, -1, 0, idx_from, idx_to)
    IN  IF idx = -1 THEN None ELSE Some(idx)

\* the for loop over _battery of max_joltage: the batteries picked, or None
RECURSIVE pick_batteries(_, _, _, _, _, _)
pick_batteries(self, batteries, remaining_battery_count, idx_start, idx_up_to, todo) ==
    IF todo = 0 THEN Some(batteries)
    ELSE LET found == find_first_largest(self, idx_start, idx_up_to)
             jbi_len == Cardinality(DOMAIN self.joltage_by_idx)
         IN  IF found = None THEN None
             ELSE pick_batteries(self, Append(batteries, found[1]),
                                 remaining_battery_count - 1, found[1] + 1,
                                 jbi_len - (remaining_battery_count - 1) + 1,
                                 todo - 1)

\* the loop that builds the joltage of the selected batteries
RECURSIVE selected_joltage(_, _, _)
selected_joltage(self, batteries, acc) ==
    IF batteries = << >> THEN acc
    ELSE selected_joltage(self, Tail(batteries),
                          acc * 10 + self.joltage_by_idx[Head(batteries)])

max_joltage(self, count) ==
    LET jbi_len == Cardinality(DOMAIN self.joltage_by_idx)
    IN  IF count > jbi_len THEN None
        ELSE LET picked == pick_batteries(self, << >>, count, 0,
                                          jbi_len - count + 1, count)
             IN  IF picked = None THEN None
                 ELSE Some(selected_joltage(self, picked[1], 0))

(***************************************************************************)
(* Point                                                                   *)
(***************************************************************************)
Point_new(x, y) == [x |-> x, y |-> y]

Abs0(n) == IF n < 0 THEN -n ELSE n

\* mutant: the tiles of the far edges are not counted
area_with_exclusive(self, other) ==
    Abs0(self.x - other.x) * Abs0(self.y - other.y)

\* mutant: a shared coordinate does not give 0
area_with_no_zero(self, other) ==
    (Abs0(self.x - other.x) + 1) * (Abs0(self.y - other.y) + 1)

\* mutant: only a point below and to the right of self spans an area
area_with_lower_right(self, other) ==
    IF (self.x < other.x) /\ (self.y < other.y)
    THEN (other.x - self.x + 1) * (other.y - self.y + 1)
    ELSE 0

area_with(self, other) ==
    IF (self.x = other.x) \/ (self.y = other.y) THEN 0
    ELSE IF self.x < other.x
         THEN IF self.y < other.y
              THEN LET dx == other.x - self.x
                       dy == other.y - self.y
                   IN (dx + 1) * (dy + 1)
              ELSE LET dx == other.x - self.x
                       dy == self.y - other.y
                   IN (dx + 1) * (dy + 1)
         ELSE IF self.y < other.y
              THEN LET dx == self.x - other.x
                       dy == other.y - self.y
                   IN (dx + 1) * (dy + 1)
              ELSE LET dx == self.x - other.x
                       dy == self.y - other.y
                   IN (dx + 1) * (dy + 1)

(***************************************************************************)
(* Tile and TileGrid.  tiles is the nested map of the source flattened to  *)
(* a function from the points that hold a tile.                            *)
(***************************************************************************)
Tile_new(color) == [color |-> color, inside_direction |-> "Unknown"]

\* mutant: the last inside direction wins
Tile_set_inside_direction_overwrite(tile, inside_direction) ==
    [tile EXCEPT !.inside_direction = inside_direction]

Tile_set_inside_direction(tile, inside_direction) ==
    IF tile.inside_direction = "Unknown"
    THEN [tile EXCEPT !.inside_direction = inside_direction]
    ELSE tile

TileGrid_new ==
    [tiles |-> <<>>, min_x |-> U64_MAX, min_y |-> U64_MAX, max_x |-> 0, max_y |-> 0]

Min(m, n) == IF m < n THEN m ELSE n
Max(m, n) == IF m > n THEN m ELSE n

\* mutant: the last tile of a cell wins
insert_tile_overwrite(g, loc, color) ==
    [tiles |-> (loc :> [color |-> color, inside_direction |-> "Unknown"]) @@ g.tiles,
     min_x |-> IF g.min_x < loc.x THEN g.min_x ELSE loc.x,
     min_y |-> IF g.min_y < loc.y THEN g.min_y ELSE loc.y,
     max_x |-> IF g.max_x > loc.x THEN g.max_x ELSE loc.x,
     max_y |-> IF g.max_y > loc.y THEN g.max_y ELSE loc.y]

\* mutant: the extent of the grid is not tracked
insert_tile_no_extent(g, loc, color) ==
    IF loc \in DOMAIN g.tiles THEN g
    ELSE [g EXCEPT !.tiles = (loc :> [color |-> color, inside_direction |-> "Unknown"]) @@ g.tiles]

insert_tile(g, loc, color) ==
    IF loc \in DOMAIN g.tiles THEN g
    ELSE [tiles |-> (loc :> Tile_new(color)) @@ g.tiles,
          min_x |-> Min(g.min_x, loc.x),
          min_y |-> Min(g.min_y, loc.y),
          max_x |-> Max(g.max_x, loc.x),
          max_y |-> Max(g.max_y, loc.y)]

\* mutant: no green tile is written
insert_green_tile_dropped(g, loc) == g

insert_green_tile(g, loc) == insert_tile(g, loc, "Green")
insert_green_fill_tile(g, loc) == insert_tile(g, loc, "GreenFill")
insert_red_tile(g, loc) == insert_tile(g, loc, "Red")

get_color(g, x, y) ==
    IF Point_new(x, y) \in DOMAIN g.tiles
    THEN g.tiles[Point_new(x, y)].color
    ELSE "Other"

get_inside_direction(g, x, y) ==
    IF Point_new(x, y) \in DOMAIN g.tiles
    THEN g.tiles[Point_new(x, y)].inside_direction
    ELSE "Unknown"

set_inside_direction(g, x, y, idir) ==
    IF Point_new(x, y) \notin DOMAIN g.tiles THEN g
    ELSE [g EXCEPT !.tiles[Point_new(x, y)] = Tile_set_inside_direction(@, idir)]

is_color_green_fill(g, x, y) == get_color(g, x, y) = "GreenFill"
is_color_other(g, x, y) == get_color(g, x, y) = "Other"

(***************************************************************************)
(* connect_red_tiles_with_green_tiles: the green run between two red       *)
(* tiles.  green_run is the body of its four for loops: k runs over        *)
(* start..end (end excluded) along the column or the row named by fixed.   *)
(***************************************************************************)
RECURSIVE green_run(_, _, _, _, _)
green_run(g, vertical, fixed, k, end) ==
    IF k >= end THEN g
    ELSE green_run(insert_green_tile(g, IF vertical THEN Point_new(fixed, k)
                                                    ELSE Point_new(k, fixed)),
                   vertical, fixed, k + 1, end)

\* mutant: only vertical runs are drawn
connect_vertical_only(g, pa, pb) ==
    IF pa.x = pb.x
    THEN green_run(g, TRUE, pa.x, Min(pa.y, pb.y) + 1, Max(pa.y, pb.y))
    ELSE g

connect_red_tiles_with_green_tiles(g, pa, pb) ==
    IF pa.x = pb.x
    THEN IF pa.y <= pb.y
         THEN green_run(g, TRUE, pa.x, pa.y + 1, pb.y)
         ELSE green_run(g, TRUE, pa.x, pb.y + 1, pa.y)
    ELSE IF pa.x <= pb.x
         THEN green_run(g, FALSE, pa.y, pa.x + 1, pb.x)
         ELSE green_run(g, FALSE, pa.y, pb.x + 1, pa.x)

(***************************************************************************)
(* Ray counts.  count_run is the loop shared, copy for copy, by            *)
(* count_left, count_right, count_up and count_down: k runs over           *)
(* start..end (end excluded) along the row (or column) named by fixed.     *)
(***************************************************************************)
RECURSIVE count_run(_, _, _, _, _, _, _)
count_run(g, vertical, fixed, k, end, count, looking_for_red) ==
    IF k >= end THEN count
    ELSE LET color == IF vertical THEN get_color(g, fixed, k)
                                  ELSE get_color(g, k, fixed)
         IN CASE color = "Green" ->
                    count_run(g, vertical, fixed, k + 1, end,
                              IF ~looking_for_red THEN count + 1 ELSE count,
                              looking_for_red)
              [] color = "Red" ->
                    count_run(g, vertical, fixed, k + 1, end,
                              count + 1, ~looking_for_red)
              [] OTHER ->
                    count_run(g, vertical, fixed, k + 1, end,
                              count, looking_for_red)

count_left(g, x, y) == count_run(g, FALSE, y, 0, x, 0, FALSE)
count_right(g, x, y) == count_run(g, FALSE, y, x + 1, g.max_x + 1, 0, FALSE)
count_up(g, x, y) == count_run(g, TRUE, x, 0, y, 0, FALSE)
count_down(g, x, y) == count_run(g, TRUE, x, y + 1, g.max_y + 1, 0, FALSE)

(***************************************************************************)
(* fill_if_neighbors and fill_in_loops.  Both sweep the bounding box row   *)
(* by row, x fastest, and write into the grid they read.                   *)
(***************************************************************************)
\* mutant: only the neighbour to the left is looked at
fill_if_neighbors_cell_left_only(g, x, y) ==
    IF get_color(g, x, y) # "Other" THEN g
    ELSE IF (g.min_x < x) /\ is_color_green_fill(g, x - 1, y)
         THEN insert_green_fill_tile(g, Point_new(x, y))
    ELSE g

fill_if_neighbors_cell(g, x, y) ==
    IF get_color(g, x, y) # "Other" THEN g
    ELSE IF (g.min_x < x) /\ is_color_green_fill(g, x - 1, y)
         THEN insert_green_fill_tile(g, Point_new(x, y))
    ELSE IF (g.max_x > x) /\ is_color_green_fill(g, x + 1, y)
         THEN insert_green_fill_tile(g, Point_new(x, y))
    ELSE IF (g.min_y < y) /\ is_color_green_fill(g, x, y - 1)
         THEN insert_green_fill_tile(g, Point_new(x, y))
    ELSE IF (g.max_y > y) /\ is_color_green_fill(g, x, y + 1)
         THEN insert_green_fill_tile(g, Point_new(x, y))
    ELSE g

\* for x in self.min_x..=self.max_x, within row y
RECURSIVE fill_if_neighbors_row(_, _, _)
fill_if_neighbors_row(g, x, y) ==
    IF x > g.max_x THEN g
    ELSE fill_if_neighbors_row(fill_if_neighbors_cell(g, x, y), x + 1, y)

\* for y in self.min_y..=self.max_y
RECURSIVE fill_if_neighbors_rows(_, _)
fill_if_neighbors_rows(g, y) ==
    IF y > g.max_y THEN g
    ELSE fill_if_neighbors_rows(fill_if_neighbors_row(g, g.min_x, y), y + 1)

fill_if_neighbors(g) == fill_if_neighbors_rows(g, g.min_y)

\* mutant: the ray-parity pass fills no cell
fill_in_loops_cell_skipped(g, x, y) == g

\* mutant: a ray that crosses nothing does not end the look at a cell
fill_in_loops_cell_any_odd(g, x, y) ==
    IF get_color(g, x, y) # "Other" THEN g
    ELSE IF \/ 1 = (count_left(g, x, y) % 2)
            \/ 1 = (count_right(g, x, y) % 2)
            \/ 1 = (count_up(g, x, y) % 2)
            \/ 1 = (count_down(g, x, y) % 2)
         THEN insert_green_fill_tile(g, Point_new(x, y))
    ELSE g

fill_in_loops_cell(g, x, y) ==
    IF get_color(g, x, y) # "Other" THEN g
    ELSE IF 0 = count_left(g, x, y) THEN g
    ELSE IF 0 = count_right(g, x, y) THEN g
    ELSE IF 0 = count_up(g, x, y) THEN g
    ELSE IF 0 = count_down(g, x, y) THEN g
    ELSE IF 1 = (count_left(g, x, y) % 2)
         THEN insert_green_fill_tile(g, Point_new(x, y))
    ELSE IF 1 = (count_right(g, x, y) % 2)
         THEN insert_green_fill_tile(g, Point_new(x, y))
    ELSE IF 1 = (count_up(g, x, y) % 2)
         THEN insert_green_fill_tile(g, Point_new(x, y))
    ELSE IF 1 = (count_down(g, x, y) % 2)
         THEN insert_green_fill_tile(g, Point_new(x, y))
    ELSE g

\* for x in self.min_x..=self.max_x, within row y
RECURSIVE fill_in_loops_row(_, _, _)
fill_in_loops_row(g, x, y) ==
    IF x > g.max_x THEN g
    ELSE fill_in_loops_row(fill_in_loops_cell(g, x, y), x + 1, y)

\* for y in self.min_y..=self.max_y
RECURSIVE fill_in_loops_rows(_, _)
fill_in_loops_rows(g, y) ==
    IF y > g.max_y THEN g
    ELSE fill_in_loops_rows(fill_in_loops_row(g, g.min_x, y), y + 1)

ray_parity_pass(g) == fill_in_loops_rows(g, g.min_y)

fill_in_loops(g) == fill_if_neighbors(ray_parity_pass(g))

(***************************************************************************)
(* is_outside and find_inside_direction                                    *)
(***************************************************************************)
is_outside(g, x, y) ==
    IF get_color(g, x, y) # "Other" THEN TRUE
    ELSE IF 0 = count_left(g, x, y) THEN TRUE
    ELSE IF 0 = count_right(g, x, y) THEN TRUE
    ELSE IF 0 = count_up(g, x, y) THEN TRUE
    ELSE IF 0 = count_down(g, x, y) THEN TRUE
    ELSE IF 1 = (count_left(g, x, y) % 2) THEN FALSE
    ELSE IF 1 = (count_right(g, x, y) % 2) THEN FALSE
    ELSE IF 1 = (count_up(g, x, y) % 2) THEN FALSE
    ELSE IF 1 = (count_down(g, x, y) % 2) THEN FALSE
    ELSE TRUE

find_inside_direction(g, x, y) ==
    LET upper_left_out  == IF (0 < x) /\ (0 < y) THEN is_outside(g, x - 1, y - 1) ELSE TRUE
        upper_right_out == IF 0 < y THEN is_outside(g, x + 1, y - 1) ELSE TRUE
        lower_right_out == is_outside(g, x + 1, y + 1)
        lower_left_out  == IF 0 < x THEN is_outside(g, x - 1, y + 1) ELSE TRUE
    IN  IF upper_left_out /\ lower_left_out /\ lower_right_out THEN "UpperRight"
        ELSE IF upper_right_out /\ lower_left_out /\ lower_right_out THEN "UpperLeft"
        ELSE IF upper_right_out /\ upper_left_out /\ lower_right_out THEN "LowerLeft"
        ELSE IF upper_right_out /\ upper_left_out /\ lower_left_out THEN "LowerRight"
        ELSE IF upper_right_out THEN "NotUpperRight"
        ELSE IF upper_left_out THEN "NotUpperLeft"
        ELSE IF lower_left_out THEN "NotLowerLeft"
        ELSE IF lower_right_out THEN "NotLowerRight"
        ELSE "Unknown"

(***************************************************************************)
(* Marking the red tiles.  A call either returns the grid or panics; the   *)
(* result carries the grid as the panic left it.  v - 1 on a u64 that is   *)
(* 0 panics in a build with overflow checks and wraps to u64::MAX in a     *)
(* build without them: oc tells which build runs.                          *)
(***************************************************************************)
Returned(g) == [grid |-> g, panic |-> "none"]
Panicked(g, msg) == [grid |-> g, panic |-> msg]

wrapping_dec(v) == IF v = 0 THEN U64_MAX ELSE v - 1

\* the column cases: is_color_other(x + 1, b.y), then is_color_other(x - 1, b.y)
mark_column(g, oc, pa, pb, first, second, msg) ==
    LET x == pa.x
    IN  IF is_color_other(g, x + 1, pb.y)
        THEN Returned(set_inside_direction(g, pb.x, pb.y, first))
        ELSE IF (x = 0) /\ oc
        THEN Panicked(g, "attempt to subtract with overflow")
        ELSE IF is_color_other(g, wrapping_dec(x), pb.y)
        THEN Returned(set_inside_direction(g, pb.x, pb.y, second))
        ELSE Panicked(g, msg)

\* the row cases: is_color_other(b.x, y - 1), then is_color_other(b.x, y + 1)
mark_row(g, oc, pa, pb, first, second, msg) ==
    LET y == pa.y
    IN  IF (y = 0) /\ oc
        THEN Panicked(g, "attempt to subtract with overflow")
        ELSE IF is_color_other(g, pb.x, wrapping_dec(y))
        THEN Returned(set_inside_direction(g, pb.x, pb.y, first))
        ELSE IF is_color_other(g, pb.x, y + 1)
        THEN Returned(set_inside_direction(g, pb.x, pb.y, second))
        ELSE Panicked(g, msg)

mark_red_tiles_moving_down(g, oc, a_inside_dir, pa, pb) ==
    CASE a_inside_dir = "NotLowerLeft" ->
            mark_column(g, oc, pa, pb, "NotUpperLeft", "UpperRight", "DOWN 1")
      [] a_inside_dir = "LowerLeft" ->
            mark_column(g, oc, pa, pb, "UpperLeft", "NotUpperRight", "DOWN 2")
      [] a_inside_dir = "NotLowerRight" ->
            mark_column(g, oc, pa, pb, "UpperLeft", "NotUpperRight", "DOWN 3")
      [] a_inside_dir = "LowerRight" ->
            mark_column(g, oc, pa, pb, "NotUpperLeft", "UpperRight", "DOWN 4")
      [] OTHER -> Panicked(g, "Unexpected DOWN a_inside_dir")

mark_red_tiles_moving_up(g, oc, a_inside_dir, pa, pb) ==
    CASE a_inside_dir = "NotUpperLeft" ->
            mark_column(g, oc, pa, pb, "NotLowerLeft", "LowerRight", "UP 1")
      [] a_inside_dir = "UpperLeft" ->
            mark_column(g, oc, pa, pb, "LowerLeft", "NotLowerRight", "UP 2")
      [] a_inside_dir = "UpperRight" ->
            mark_column(g, oc, pa, pb, "NotLowerLeft", "LowerRight", "UP 3")
      [] a_inside_dir = "NotUpperRight" ->
            mark_column(g, oc, pa, pb, "LowerLeft", "NotLowerRight", "UP 4")
      [] OTHER -> Panicked(g, "Unexpected UP a_inside_dir")

mark_red_tiles_moving_right(g, oc, a_inside_dir, pa, pb) ==
    CASE a_inside_dir = "NotLowerRight" ->
            mark_row(g, oc, pa, pb, "NotLowerLeft", "UpperLeft", "RIGHT 1")
      [] a_inside_dir = "LowerRight" ->
            mark_row(g, oc, pa, pb, "LowerLeft", "NotUpperLeft", "RIGHT 2")
      [] a_inside_dir = "NotUpperRight" ->
            mark_row(g, oc, pa, pb, "LowerLeft", "NotUpperLeft", "RIGHT 3")
      [] a_inside_dir = "UpperRight" ->
            mark_row(g, oc, pa, pb, "NotLowerLeft", "UpperLeft", "RIGHT 4")
      [] OTHER -> Panicked(g, "Unexpected RIGHT a_inside_dir")

mark_red_tiles_moving_left(g, oc, a_inside_dir, pa, pb) ==
    CASE a_inside_dir = "NotLowerLeft" ->
            mark_row(g, oc, pa, pb, "NotLowerRight", "UpperRight", "LEFT 1")
      [] a_inside_dir = "UpperLeft" ->
            mark_row(g, oc, pa, pb, "NotLowerRight", "UpperRight", "LEFT 2")
      [] a_inside_dir = "NotUpperLeft" ->
            mark_row(g, oc, pa, pb, "LowerRight", "NotUpperRight", "LEFT 3")
      [] a_inside_dir = "LowerLeft" ->
            mark_row(g, oc, pa, pb, "LowerRight", "NotUpperRight", "LEFT 4")
      [] OTHER -> Panicked(g, "Unexpected LEFT a_inside_dir")

DiagonalPanic == "Diagonal connection of red tiles ZZZ"

mark_red_tiles_with_inside_direction(g, oc, pa, pb) ==
    LET b_inside_dir == get_inside_direction(g, pb.x, pb.y)
        g1 == IF get_inside_direction(g, pa.x, pa.y) = "Unknown"
              THEN set_inside_direction(g, pa.x, pa.y,
                                        find_inside_direction(g, pa.x, pa.y))
              ELSE g
        a_inside_dir == get_inside_direction(g1, pa.x, pa.y)
    IN  IF b_inside_dir # "Unknown" THEN Returned(g1)
        ELSE IF pa.x = pb.x
             THEN IF pa.y < pb.y
                  THEN mark_red_tiles_moving_down(g1, oc, a_inside_dir, pa, pb)
                  ELSE mark_red_tiles_moving_up(g1, oc, a_inside_dir, pa, pb)
        ELSE IF pa.y = pb.y
             THEN IF pa.x < pb.x
                  THEN mark_red_tiles_moving_right(g1, oc, a_inside_dir, pa, pb)
                  ELSE mark_red_tiles_moving_left(g1, oc, a_inside_dir, pa, pb)
        ELSE Panicked(g1, DiagonalPanic)

(***************************************************************************)
(* The rectangle search                                                    *)
(***************************************************************************)
\* mutant: the rectangle's own border is scanned too
is_filled_inclusive(g, pa, pb) ==
    \A x \in (IF pa.x < pb.x THEN pa.x ELSE pb.x)..(IF pa.x < pb.x THEN pb.x ELSE pa.x) :
        \A y \in (IF pa.y < pb.y THEN pa.y ELSE pb.y)..(IF pa.y < pb.y THEN pb.y ELSE pa.y) :
            get_color(g, x, y) = "GreenFill"

is_filled(g, pa, pb) ==
    LET ul == IF pa.x < pb.x /\ pa.y < pb.y THEN Point_new(pa.x, pa.y)
              ELSE IF pa.x < pb.x /\ pa.y > pb.y THEN Point_new(pa.x, pb.y)
              ELSE IF pa.x > pb.x /\ pa.y < pb.y THEN Point_new(pb.x, pa.y)
              ELSE IF pa.x > pb.x /\ pa.y > pb.y THEN Point_new(pb.x, pb.y)
              ELSE Point_new(0, 0)
        br == IF pa.x < pb.x /\ pa.y < pb.y THEN Point_new(pb.x, pb.y)
              ELSE IF pa.x < pb.x /\ pa.y > pb.y THEN Point_new(pb.x, pa.y)
              ELSE IF pa.x > pb.x /\ pa.y < pb.y THEN Point_new(pa.x, pb.y)
              ELSE IF pa.x > pb.x /\ pa.y > pb.y THEN Point_new(pa.x, pa.y)
              ELSE Point_new(0, 0)
    IN  \A x \in (ul.x + 1)..(br.x - 1) :
            \A y \in (ul.y + 1)..(br.y - 1) :
                get_color(g, x, y) = "GreenFill"

\* points.get(i) of a Vec: the sequence is 1-based, the index 0-based
get(pts, k) == pts[k + 1]

\* the for loop over id_b of find_max_filled_area (m is compared at every
\* step so that TLC evaluates it step by step, not as one nested expression)
RECURSIVE filled_area_loop(_, _, _, _, _, _)
filled_area_loop(g, m, pts, id_a, id_b, end) ==
    IF (id_b >= end) \/ (m < 0) THEN m
    ELSE LET point_a == get(pts, id_a)
             point_b == get(pts, id_b)
             area == area_with(point_a, point_b)
         IN  filled_area_loop(g,
                              IF is_filled(g, point_a, point_b) /\ area > m
                              THEN area ELSE m,
                              pts, id_a, id_b + 1, end)

RECURSIVE find_max_filled_area(_, _, _, _, _)
find_max_filled_area(g, m, pts, id_a, end) ==
    IF 1 >= (end - id_a) THEN m
    ELSE LET start == id_a + 1
         IN  filled_area_loop(g, find_max_filled_area(g, m, pts, start, end),
                              pts, id_a, start, end)

(***************************************************************************)
(* The loops of main over a whole point list, as functions of the list:    *)
(* what a run of main with --with-green-tiles makes of an input.           *)
(***************************************************************************)
\* for i in 0..len { grid.insert_red_tile(points.get(i)) }, from index k on
\* (here and below g.max_x is read at every step so that TLC evaluates the
\* grid step by step, not as one nested expression; it is never negative)
RECURSIVE insert_loop(_, _, _)
insert_loop(g, pts, k) ==
    IF (k >= Len(pts)) \/ (g.max_x < 0) THEN g
    ELSE insert_loop(insert_red_tile(g, get(pts, k)), pts, k + 1)

\* for next in 1..=len { connect a to b; a = b }, from the pair (from, nxt) on
RECURSIVE connect_loop(_, _, _, _)
connect_loop(g, pts, from, nxt) ==
    IF (nxt > Len(pts)) \/ (g.max_x < 0) THEN g
    ELSE LET to == IF nxt = Len(pts) THEN 0 ELSE nxt
         IN  connect_loop(connect_red_tiles_with_green_tiles(g, get(pts, from), get(pts, to)),
                          pts, to, nxt + 1)

\* for next in 1..=len { mark a to b; a = b }, up to the first panic
RECURSIVE mark_loop(_, _, _, _, _)
mark_loop(g, checks, pts, from, nxt) ==
    IF (nxt > Len(pts)) \/ (g.max_x < 0) THEN Returned(g)
    ELSE LET to == IF nxt = Len(pts) THEN 0 ELSE nxt
             r == mark_red_tiles_with_inside_direction(g, checks, get(pts, from), get(pts, to))
         IN  IF r.panic # "none" THEN r
             ELSE mark_loop(r.grid, checks, pts, to, nxt + 1)

\* the grid after the insert and the connect loop
materialize(pts) == connect_loop(insert_loop(TileGrid_new, pts, 0), pts, 0, 1)

\* fill_in_loops and find_max_filled_area on a grid whose marking returned
classify_and_search(g, pts) ==
    LET filled == fill_in_loops(g)
    IN  [grid |-> filled, panic |-> "none",
         max_area |-> find_max_filled_area(filled, 0, pts, 0, Len(pts))]

\* the whole run: the final grid, the panic message or "none", the area printed
run(pts, checks) ==
    LET marked == mark_loop(materialize(pts), checks, pts, 0, 1)
    IN  IF marked.panic # "none"
        THEN [grid |-> marked.grid, panic |-> marked.panic, max_area |-> 0]
        ELSE classify_and_search(marked.grid, pts)

\* the for loop over id_b of find_max_area
RECURSIVE area_loop(_, _, _, _, _)
area_loop(m, pts, id_a, id_b, end) ==
    IF (id_b >= end) \/ (m < 0) THEN m
    ELSE LET point_a == get(pts, id_a)
             point_b == get(pts, id_b)
             area == area_with(point_a, point_b)
         IN  area_loop(IF area > m THEN area ELSE m, pts, id_a, id_b + 1, end)

\* mutant: only the pairs of the first point are looked at
find_max_area_first_only(m, pts, id_a, end) ==
    IF 1 >= (end - id_a) THEN m
    ELSE area_loop(m, pts, id_a, id_a + 1, end)

RECURSIVE find_max_area(_, _, _, _)
find_max_area(m, pts, id_a, end) ==
    IF 1 >= (end - id_a) THEN m
    ELSE LET start == id_a + 1
         IN  area_loop(find_max_area(m, pts, start, end), pts, id_a, start, end)

(***************************************************************************)
(* Inputs: the point lists file_to_points can hand to main.                *)
(***************************************************************************)
Pts(s) == [k \in 1..Len(s) |-> Point_new(s[k][1], s[k][2])]

\* the polygon of t_given_example_part1 and t_given_example_part2
ZigZag == Pts(<< <<7,1>>, <<11,1>>, <<11,7>>, <<9,7>>, <<9,5>>, <<2,5>>, <<2,3>>, <<7,3>> >>)

\* the polygon of t_degen_example_part_2
TwoNotches == Pts(<< <<3,1>>, <<6,1>>, <<6,3>>, <<11,3>>, <<11,1>>, <<15,1>>, <<15,5>>,
                     <<9,5>>, <<9,6>>, <<6,6>>, <<6,8>>, <<1,8>>, <<1,5>>, <<3,5>> >>)

\* the rectangle of t_ul_br, as a polygon
Square == Pts(<< <<1,1>>, <<5,1>>, <<5,4>>, <<1,4>> >>)

\* a bar two cells wide with a notch at two opposite corners
NotchedBar == Pts(<< <<1,2>>, <<2,2>>, <<2,1>>, <<3,1>>, <<3,4>>, <<2,4>>, <<2,5>>, <<1,5>> >>)

\* the polygon of t_degen_example_part_2 read from the vertex (9,5), in the
\* opposite direction
TwoNotchesReversed ==
    Pts(<< <<9,5>>, <<15,5>>, <<15,1>>, <<11,1>>, <<11,3>>, <<6,3>>, <<6,1>>,
           <<3,1>>, <<3,5>>, <<1,5>>, <<1,8>>, <<6,8>>, <<6,6>>, <<9,6>> >>)

\* three axis-aligned sides, the last point joined to the first by a slanted one
SlantedClosure == Pts(<< <<1,1>>, <<4,1>>, <<4,3>>, <<3,3>> >>)

\* a slanted side between the third point and the fourth
SlantedSide == Pts(<< <<1,1>>, <<3,1>>, <<3,3>>, <<1,2>> >>)

\* four arms around the cell (4,3), whose four neighbours are vertices
Pinwheel ==
    Pts(<< <<4,1>>, <<5,1>>, <<5,3>>, <<7,3>>, <<7,4>>, <<4,4>>, <<4,5>>, <<3,5>>,
           <<3,3>>, <<1,3>>, <<1,2>>, <<4,2>> >>)

\* a hook: an arm to the left of a column, with a bay open to the left below it
Hook ==
    Pts(<< <<8,1>>, <<4,1>>, <<4,2>>, <<1,2>>, <<1,5>>, <<3,5>>, <<3,3>>, <<6,3>>,
           <<6,7>>, <<4,7>>, <<4,8>>, <<8,8>> >>)

\* two points of one row, the second to the left of the first
Segment == Pts(<< <<3,1>>, <<1,1>> >>)

\* three points of one row, the third between the first two
Backtrack == Pts(<< <<1,1>>, <<5,1>>, <<3,1>> >>)

\* the hook turned by half a turn: its arm is to the right of the column, with
\* the bay open to the right above it
HookTurned ==
    Pts(<< <<1,8>>, <<5,8>>, <<5,7>>, <<8,7>>, <<8,4>>, <<6,4>>, <<6,6>>, <<3,6>>,
           <<3,2>>, <<5,2>>, <<5,1>>, <<1,1>> >>)

ScenarioInputs ==
    {ZigZag, TwoNotches, Square, NotchedBar, TwoNotchesReversed, SlantedClosure,
     SlantedSide, Pinwheel, Hook, HookTurned, Segment, Backtrack}

\* point lists of 2k points in which horizontal and vertical steps alternate
HFirst(xs, ys, k) ==
    [j \in 1..(2 * k) |->
        IF j % 2 = 1 THEN Point_new(xs[(j + 1) \div 2], ys[(j + 1) \div 2])
        ELSE Point_new(xs[((j \div 2) % k) + 1], ys[j \div 2])]

VFirst(xs, ys, k) ==
    [j \in 1..(2 * k) |->
        IF j % 2 = 1 THEN Point_new(xs[(j + 1) \div 2], ys[(j + 1) \div 2])
        ELSE Point_new(xs[j \div 2], ys[((j \div 2) % k) + 1])]

Alternating ==
    UNION {UNION {{HFirst(xs, ys, k), VFirst(xs, ys, k)} :
                    xs \in [1..k -> 0..MaxCoord], ys \in [1..k -> 0..MaxCoord]} :
           k \in 2..MaxTurns}

\* The cells of the segment between two points that share a coordinate
Between(m, n) == Min(m, n)..Max(m, n)
EdgeCells(p, q) == {Point_new(x, y) : x \in Between(p.x, q.x), y \in Between(p.y, q.y)}

Succ(pts, k) == pts[(k % Len(pts)) + 1]
AxisAligned(p, q) == (p.x = q.x) # (p.y = q.y)

\* a simple rectilinear polygon: every edge is axis-aligned and not empty,
\* edges turn at every vertex, and two edges share no cell but the vertex
\* at which consecutive edges meet.
IsSimplePolygon(pts) ==
    LET n == Len(pts)
        Edge(k) == EdgeCells(pts[k], Succ(pts, k))
    IN  /\ n >= 4
        /\ \A k \in 1..n : AxisAligned(pts[k], Succ(pts, k))
        /\ \A k \in 1..n : (pts[k].x = Succ(pts, k).x) # (Succ(pts, k).x = Succ(pts, k + 1).x)
        /\ \A k, l \in 1..n :
              k < l =>
                 Edge(k) \cap Edge(l) =
                    IF l = k + 1 THEN {pts[l]}
                    ELSE IF k = 1 /\ l = n THEN {pts[1]}
                    ELSE {}

PolygonInputs == {pts \in Alternating : IsSimplePolygon(pts)}

FreePoints == {Point_new(x, y) : x \in 0..MaxFree, y \in 0..MaxFree}
FreeInputs == UNION {[1..n -> FreePoints] : n \in 0..MaxFreeLen}

Inputs == ScenarioInputs \cup PolygonInputs \cup FreeInputs

(***************************************************************************)
(* main: without --with-green-tiles one action, the call of find_max_area; *)
(* with it, one action per loop iteration and one per call of              *)
(* fill_in_loops and find_max_filled_area.                                 *)
(***************************************************************************)
\* the state of a program of another day that is not running
Day01Idle == dial = Dial_new_default /\ ops = << >>
Day03Idle == line = << >> /\ bank = BatteryBank_new(<< >>) /\ battery_count = 0 /\ joltage = None

len == Len(points)

Init ==
    /\ points \in Inputs
    /\ overflow_checks \in BOOLEAN
    /\ grid = TileGrid_new
    /\ pc \in {"find_max_area", "insert"}
    /\ i = 0
    /\ a = 0
    /\ next = 1
    /\ max_area = 0
    /\ panic = "none"
    /\ Day01Idle
    /\ Day03Idle

\* without --with-green-tiles: find_max_area over the points, no grid
FindMaxArea ==
    /\ pc = "find_max_area"
    /\ max_area' = find_max_area(0, points, 0, len)
    /\ pc' = "reported"
    /\ UNCHANGED <<points, grid, i, a, next, overflow_checks, panic>>
    /\ UNCHANGED <<day01_vars, day03_vars>>

\* for i in 0..len { grid.insert_red_tile(points.get(i)) }
InsertRedTile ==
    /\ pc = "insert"
    /\ i < len
    /\ grid' = insert_red_tile(grid, get(points, i))
    /\ i' = i + 1
    /\ UNCHANGED <<points, pc, a, next, max_area, overflow_checks, panic>>
    /\ UNCHANGED <<day01_vars, day03_vars>>

InsertDone ==
    /\ pc = "insert"
    /\ i >= len
    /\ pc' = "connect"
    /\ a' = 0
    /\ next' = 1
    /\ UNCHANGED <<points, grid, i, max_area, overflow_checks, panic>>
    /\ UNCHANGED <<day01_vars, day03_vars>>

\* the b of the loops over next in 1..=len
b == IF next = len THEN 0 ELSE next

ConnectRedTiles ==
    /\ pc = "connect"
    /\ next <= len
    /\ grid' = connect_red_tiles_with_green_tiles(grid, get(points, a), get(points, b))
    /\ a' = b
    /\ next' = next + 1
    /\ UNCHANGED <<points, pc, i, max_area, overflow_checks, panic>>
    /\ UNCHANGED <<day01_vars, day03_vars>>

ConnectDone ==
    /\ pc = "connect"
    /\ next > len
    /\ pc' = "mark"
    /\ a' = 0
    /\ next' = 1
    /\ UNCHANGED <<points, grid, i, max_area, overflow_checks, panic>>
    /\ UNCHANGED <<day01_vars, day03_vars>>

MarkRedTiles ==
    /\ pc = "mark"
    /\ next <= len
    /\ LET r == mark_red_tiles_with_inside_direction(grid, overflow_checks,
                                                     get(points, a), get(points, b))
       IN  /\ grid' = r.grid
           /\ panic' = r.panic
           /\ IF r.panic = "none"
              THEN /\ a' = b
                   /\ next' = next + 1
                   /\ pc' = pc
              ELSE /\ pc' = "panicked"
                   /\ UNCHANGED <<a, next>>
    /\ UNCHANGED <<points, i, max_area, overflow_checks>>
    /\ UNCHANGED <<day01_vars, day03_vars>>

MarkDone ==
    /\ pc = "mark"
    /\ next > len
    /\ pc' = "fill"
    /\ UNCHANGED <<points, grid, i, a, next, max_area, overflow_checks, panic>>
    /\ UNCHANGED <<day01_vars, day03_vars>>

FillInLoops ==
    /\ pc = "fill"
    /\ grid' = fill_in_loops(grid)
    /\ pc' = "search"
    /\ UNCHANGED <<points, i, a, next, max_area, overflow_checks, panic>>
    /\ UNCHANGED <<day01_vars, day03_vars>>

\* mutant: the search clears the inside direction of the tiles it reads
FindMaxFilledArea_retagging ==
    /\ pc = "search"
    /\ max_area' = find_max_filled_area(grid, 0, points, 0, len)
    /\ grid' = [grid EXCEPT !.tiles = [c \in DOMAIN grid.tiles |->
                                          Tile_new(grid.tiles[c].color)]]
    /\ pc' = "done"
    /\ UNCHANGED <<points, i, a, next, overflow_checks, panic>>
    /\ UNCHANGED <<day01_vars, day03_vars>>

FindMaxFilledArea ==
    /\ pc = "search"
    /\ max_area' = find_max_filled_area(grid, 0, points, 0, len)
    /\ pc' = "done"
    /\ UNCHANGED <<points, grid, i, a, next, overflow_checks, panic>>
    /\ UNCHANGED <<day01_vars, day03_vars>>

Next ==
    \/ FindMaxArea
    \/ InsertRedTile
    \/ InsertDone
    \/ ConnectRedTiles
    \/ ConnectDone
    \/ MarkRedTiles
    \/ MarkDone
    \/ FillInLoops
    \/ FindMaxFilledArea

Spec == Init /\ [][Next]_vars

(***************************************************************************)
(* The TileGrid on its own: any sequence of calls of its three insert      *)
(* methods and of set_inside_direction, on a grid of a few cells.          *)
(***************************************************************************)
TileLocs == {Point_new(x, y) : x \in 0..MaxTile, y \in 0..MaxTile}
TileDirs == {"Unknown", "UpperRight", "NotLowerLeft"}

InitTiles ==
    /\ points = << >>
    /\ overflow_checks = TRUE
    /\ grid = TileGrid_new
    /\ pc = "tiles"
    /\ i = 0
    /\ a = 0
    /\ next = 1
    /\ max_area = 0
    /\ panic = "none"
    /\ Day01Idle
    /\ Day03Idle

CallInsertRedTile ==
    /\ pc = "tiles"
    /\ \E loc \in TileLocs : grid' = insert_red_tile(grid, loc)
    /\ UNCHANGED <<points, pc, i, a, next, max_area, overflow_checks, panic>>
    /\ UNCHANGED <<day01_vars, day03_vars>>

CallInsertGreenTile ==
    /\ pc = "tiles"
    /\ \E loc \in TileLocs : grid' = insert_green_tile(grid, loc)
    /\ UNCHANGED <<points, pc, i, a, next, max_area, overflow_checks, panic>>
    /\ UNCHANGED <<day01_vars, day03_vars>>

CallInsertGreenFillTile ==
    /\ pc = "tiles"
    /\ \E loc \in TileLocs : grid' = insert_green_fill_tile(grid, loc)
    /\ UNCHANGED <<points, pc, i, a, next, max_area, overflow_checks, panic>>
    /\ UNCHANGED <<day01_vars, day03_vars>>

CallSetInsideDirection ==
    /\ pc = "tiles"
    /\ \E loc \in TileLocs, idir \in TileDirs :
          grid' = set_inside_direction(grid, loc.x, loc.y, idir)
    /\ UNCHANGED <<points, pc, i, a, next, max_area, overflow_checks, panic>>
    /\ UNCHANGED <<day01_vars, day03_vars>>

NextTiles ==
    \/ CallInsertRedTile
    \/ CallInsertGreenTile
    \/ CallInsertGreenFillTile
    \/ CallSetInsideDirection

SpecTiles == InitTiles /\ [][NextTiles]_vars

(***************************************************************************)
(* days/day01: a Dial of 100 positions receives left and right operations. *)
(***************************************************************************)
Day09Idle(phase) ==
    /\ points = << >>
    /\ overflow_checks = TRUE
    /\ grid = TileGrid_new
    /\ pc = phase
    /\ i = 0
    /\ a = 0
    /\ next = 1
    /\ max_area = 0
    /\ panic = "none"

\* the distances of the operations: those of the tests, none, one click and
\* whole turns
Clicks == {0, 1, 49, 50, 55, 100, 150, 155, 250, 349}

InitDial ==
    /\ dial = Dial_new_default
    /\ ops = << >>
    /\ Day09Idle("dial")
    /\ Day03Idle

Left ==
    /\ Len(ops) < MaxOps
    /\ \E clicks \in Clicks :
          /\ dial' = Dial_left(dial, clicks)
          /\ ops' = Append(ops, <<"L", clicks>>)
    /\ UNCHANGED <<day09_vars, day03_vars>>

Right ==
    /\ Len(ops) < MaxOps
    /\ \E clicks \in Clicks :
          /\ dial' = Dial_right(dial, clicks)
          /\ ops' = Append(ops, <<"R", clicks>>)
    /\ UNCHANGED <<day09_vars, day03_vars>>

NextDial ==
    \/ Left
    \/ Right

SpecDial == InitDial /\ [][NextDial]_vars

(***************************************************************************)
(* days/day03: a BatteryBank is made of a line and asked for its largest   *)
(* joltage of battery_count batteries.                                     *)
(***************************************************************************)
\* the characters of a line: four digits and one character that is none
Chars == {"0", "1", "2", "9", "x"}

Lines == UNION {[1..n -> Chars] : n \in 0..MaxBankLen}

InitBank ==
    /\ line \in Lines
    /\ bank = BatteryBank_new(line)
    /\ battery_count \in 0..MaxBatteryCount
    /\ joltage = None
    /\ Day09Idle("bank")
    /\ Day01Idle

MaxJoltage ==
    /\ pc = "bank"
    /\ joltage' = max_joltage(bank, battery_count)
    /\ pc' = "returned"
    /\ UNCHANGED <<points, grid, i, a, next, max_area, overflow_checks, panic>>
    /\ UNCHANGED <<line, bank, battery_count, day01_vars>>

NextBank == MaxJoltage

SpecBank == InitBank /\ [][NextBank]_vars

(***************************************************************************)
(* Ground truth used by the properties: the polygon that a point list      *)
(* describes, cell by cell, computed from the point list alone.            *)
(***************************************************************************)
Abs(n) == Abs0(n)

\* the cells of the vertices and of the edges between consecutive vertices
BoundaryCells(pts) == UNION {EdgeCells(pts[k], Succ(pts, k)) : k \in 1..Len(pts)}

\* the closed bounding box of the vertices
BoxCells(pts) ==
    LET xs == {pts[k].x : k \in 1..Len(pts)}
        ys == {pts[k].y : k \in 1..Len(pts)}
    IN  {Point_new(x, y) : x \in xs \cup {m \in 0..50 : \E l, h \in xs : l < m /\ m < h},
                           y \in ys \cup {m \in 0..50 : \E l, h \in ys : l < m /\ m < h}}

\* the number of vertical edges strictly to the right of c that a ray from c
\* towards larger x crosses, an edge counting for the rows of its lower end
\* (inclusive) up to its upper end (exclusive)
CrossingsRight(pts, c) ==
    Cardinality({k \in 1..Len(pts) :
                    /\ pts[k].x = Succ(pts, k).x
                    /\ pts[k].x > c.x
                    /\ Min(pts[k].y, Succ(pts, k).y) <= c.y
                    /\ c.y < Max(pts[k].y, Succ(pts, k).y)})

\* the cells strictly inside a simple polygon (even-odd rule)
InteriorCells(pts) ==
    {c \in BoxCells(pts) \ BoundaryCells(pts) : CrossingsRight(pts, c) % 2 = 1}

Filled(g) == {c \in DOMAIN g.tiles : g.tiles[c].color = "GreenFill"}

(***************************************************************************)
(* Properties                                                              *)
(***************************************************************************)
\* the pairs of positions of distinct list entries, first before second
Pairs == {pr \in (1..len) \X (1..len) : pr[1] < pr[2]}

\* the cells strictly inside the rectangle with corners p and q
StrictlyInside(p, q) ==
    {Point_new(x, y) : x \in (Min(p.x, q.x) + 1)..(Max(p.x, q.x) - 1),
                       y \in (Min(p.y, q.y) + 1)..(Max(p.y, q.y) - 1)}

\* all the cells of the rectangle with corners p and q
Rectangle(p, q) ==
    {Point_new(x, y) : x \in Between(p.x, q.x), y \in Between(p.y, q.y)}

RectArea(p, q) == (Abs(p.x - q.x) + 1) * (Abs(p.y - q.y) + 1)

\* the pairs of vertices that span a rectangle whose strict inside is filled
Qualifying ==
    {pr \in Pairs :
        /\ points[pr[1]].x # points[pr[2]].x
        /\ points[pr[1]].y # points[pr[2]].y
        /\ StrictlyInside(points[pr[1]], points[pr[2]]) \subseteq Filled(grid)}

SetMax(S) == IF S = {} THEN 0 ELSE CHOOSE m \in S : \A n \in S : n <= m

\* C1: when the search has returned, max_area is the largest area
\* (|A.x-B.x|+1)*(|A.y-B.y|+1) over the unordered pairs of vertices that
\* differ in x and in y and whose rectangle is InteriorFilled strictly
\* inside, and 0 when there is no such pair.
C1_MaxOverQualifyingPairs ==
    pc = "done" =>
        max_area = SetMax({RectArea(points[pr[1]], points[pr[2]]) : pr \in Qualifying})

\* the search has returned a positive area, having rejected a larger rectangle
C1_Witness ==
    /\ pc = "done"
    /\ max_area > 0
    /\ \E pr \in Pairs \ Qualifying :
          RectArea(points[pr[1]], points[pr[2]]) > max_area

\* C2: for a simple rectilinear polygon, the rectangle whose area the search
\* returns covers no cell outside the polygon: some pair of vertices that the
\* search accepts has the returned area and a rectangle of which every cell,
\* perimeter included, is a boundary cell or an interior cell of the polygon.
C2_MaxRectangleInsidePolygon ==
    (pc = "done" /\ IsSimplePolygon(points) /\ max_area > 0) =>
        \E pr \in Qualifying :
            /\ RectArea(points[pr[1]], points[pr[2]]) = max_area
            /\ Rectangle(points[pr[1]], points[pr[2]])
                  \subseteq (BoundaryCells(points) \cup InteriorCells(points))

\* the ground-truth flood fill: the cells reached from the cells of S by steps
\* to a 4-neighbour, inside the bounding box and without entering a boundary
\* cell
Neighbours4(c) ==
    {Point_new(c.x + 1, c.y), Point_new(c.x - 1, c.y),
     Point_new(c.x, c.y + 1), Point_new(c.x, c.y - 1)}

RECURSIVE FloodFill(_, _)
FloodFill(pts, S) ==
    LET N == S \cup {c \in BoxCells(pts) \ BoundaryCells(pts) :
                        \E d \in S : c \in Neighbours4(d)}
    IN  IF N = S THEN S ELSE FloodFill(pts, N)

\* C3: on a simple rectilinear polygon, every cell that the flood fill from
\* an interior seed reaches is GreenFill once fill_in_loops has run: the
\* classifier misses no interior cell.
C3_NoFalseNegatives ==
    (pc = "search" /\ IsSimplePolygon(points)) =>
        \A seed \in InteriorCells(points) :
            FloodFill(points, {seed}) \subseteq Filled(grid)

\* C4: the zigzag polygon of the tests runs to the end without a panic and
\* the largest filled rectangle has area 24.
C4_ZigZagArea ==
    (points = ZigZag) => (pc # "panicked" /\ (pc = "done" => max_area = 24))

C4_Witness == points = ZigZag /\ pc = "done" /\ max_area = 24

\* C5: the polygon with two notches of the tests runs to the end without a
\* panic and the largest filled rectangle has area 32.
C5_TwoNotchesArea ==
    (points = TwoNotches) => (pc # "panicked" /\ (pc = "done" => max_area = 32))

C5_Witness == points = TwoNotches /\ pc = "done" /\ max_area = 32

\* some consecutive pair of points, the pair last -> first included, shares
\* neither its x nor its y
HasDiagonal(pts) ==
    \E k \in 1..Len(pts) : pts[k].x # Succ(pts, k).x /\ pts[k].y # Succ(pts, k).y

\* C6: a point list in which some consecutive pair, the wrap-around pair
\* last -> first included, shares neither coordinate never reaches the end of
\* the pipeline: no area is returned for it.
C6_DiagonalIsFatal == HasDiagonal(points) => pc # "done"

\* the cells strictly between the ends of the axis-aligned consecutive pairs
AxisAlignedEdgeCells(pts) ==
    UNION {EdgeCells(pts[k], Succ(pts, k)) \ {pts[k], Succ(pts, k)} :
              k \in {j \in 1..Len(pts) : AxisAligned(pts[j], Succ(pts, j))}}

\* C7: a consecutive pair that shares neither coordinate is detected while
\* the boundary is materialised: no Green tile is written for the pair, the
\* marking of inside directions has written no tag and the filling has not
\* run, in any state of a run on such a point list.
C7_DiagonalStopsAtConnect ==
    HasDiagonal(points) =>
        /\ pc \notin {"fill", "search", "done"}
        /\ \A c \in DOMAIN grid.tiles :
              /\ grid.tiles[c].inside_direction = "Unknown"
              /\ grid.tiles[c].color = "Green" => c \in AxisAlignedEdgeCells(points)

\* C8: on a simple rectilinear polygon, whatever the first vertex and the
\* direction, the marking of inside directions never panics on an unhandled
\* a_inside_dir nor on two occupied cross-axis neighbours of b: the only
\* panic left is the arithmetic one of a coordinate 0.
C8_MarkNeverPanics ==
    IsSimplePolygon(points) => panic \in {"none", "attempt to subtract with overflow"}

\* C9: on a simple rectilinear polygon, once the marking has handled every
\* consecutive pair, every boundary cell, Red or Green, has an inside
\* direction other than Unknown.
C9_BoundaryCellsResolved ==
    (pc = "fill" /\ IsSimplePolygon(points)) =>
        \A c \in BoundaryCells(points) : get_inside_direction(grid, c.x, c.y) # "Unknown"

\* C10: fill_in_loops is idempotent: run a second time, on the grid it has
\* just classified, it changes no tile.
C10_FillInLoopsIdempotent == pc = "search" => fill_in_loops(grid) = grid

\* a closed path that encloses nothing: at least two points, all of them in
\* one row or all of them in one column
ZeroEnclosedArea(pts) ==
    /\ Len(pts) >= 2
    /\ \/ \A k \in 1..Len(pts) : pts[k].x = pts[1].x
       \/ \A k \in 1..Len(pts) : pts[k].y = pts[1].y

\* C11: a point list with fewer than 2 points, or one whose polygon encloses
\* no area, is not an error: the pipeline never panics on it and the search
\* returns 0.
C11_DegenerateInputReturnsZero ==
    (len < 2 \/ ZeroEnclosedArea(points)) =>
        (pc # "panicked" /\ (pc = "done" => max_area = 0))

\* C12 (as stated): on the square (1,1),(5,1),(5,4),(1,4) the polygon has 12
\* interior cells and 12 cells are GreenFill after fill_in_loops.
C12_SquareTwelveCells ==
    (points = Square /\ pc = "search") =>
        /\ Cardinality(InteriorCells(points)) = 12
        /\ InteriorCells(points) \subseteq Filled(grid)
        /\ Cardinality(Filled(grid)) = 12

\* C12 (amended): the square (1,1),(5,1),(5,4),(1,4) runs without a panic,
\* it has 6 interior cells, the cells (2..4, 2..3), and after fill_in_loops
\* exactly these 6 cells are GreenFill.
C12_SquareSixCells ==
    (points = Square) =>
        /\ pc # "panicked"
        /\ pc \in {"search", "done"} =>
              /\ Filled(grid) = InteriorCells(points)
              /\ Filled(grid) = {Point_new(x, y) : x \in 2..4, y \in 2..3}
              /\ Cardinality(Filled(grid)) = 6

C12_Witness == points = Square /\ pc = "search" /\ Cardinality(Filled(grid)) = 6

VertexCells(pts) == {pts[k] : k \in 1..Len(pts)}

\* C13: when every point has been inserted and every consecutive pair, the
\* pair last -> first included, has been connected, and no pair is slanted,
\* the grid holds a Red tile at every input point, a Green tile at every
\* cell strictly between two consecutive points that is not an input point,
\* and no other tile.
C13_MaterializationExact ==
    (pc = "mark" /\ next = 1 /\ ~HasDiagonal(points)) =>
        /\ DOMAIN grid.tiles = VertexCells(points) \cup AxisAlignedEdgeCells(points)
        /\ \A c \in DOMAIN grid.tiles :
              grid.tiles[c].color = IF c \in VertexCells(points) THEN "Red" ELSE "Green"

\* the boundary is materialised, with Green tiles, and a cell strictly
\* between two consecutive points is an input point
C13_Witness ==
    /\ pc = "mark" /\ next = 1 /\ ~HasDiagonal(points)
    /\ \E c \in DOMAIN grid.tiles : grid.tiles[c].color = "Green"
    /\ VertexCells(points) \cap AxisAlignedEdgeCells(points) # {}

\* C14: a tile, once in the grid, stays there with its colour: no step
\* removes a tile or changes the colour of a tile (the first insert of a
\* cell wins, a GreenFill tile stays GreenFill).
C14_FirstColorWins ==
    [][\A c \in DOMAIN grid.tiles :
          /\ c \in DOMAIN grid'.tiles
          /\ grid'.tiles[c].color = grid.tiles[c].color]_vars

\* the pipeline has run to its end and an input point that lies strictly
\* between two consecutive points, where connect has inserted Green, is Red
C14_Witness ==
    /\ pc = "done"
    /\ \E c \in VertexCells(points) \cap AxisAlignedEdgeCells(points) :
          get_color(grid, c.x, c.y) = "Red"

\* C15: an inside direction other than Unknown is never overwritten: no
\* step changes the inside direction of a tile that has one.
C15_FirstDirectionWins ==
    [][\A c \in DOMAIN grid.tiles :
          grid.tiles[c].inside_direction # "Unknown" =>
              /\ c \in DOMAIN grid'.tiles
              /\ grid'.tiles[c].inside_direction = grid.tiles[c].inside_direction]_vars

\* two tiles hold different inside directions, both other than Unknown
C15_Witness ==
    /\ pc = "tiles"
    /\ \E c, d \in DOMAIN grid.tiles :
          /\ grid.tiles[c].inside_direction = "UpperRight"
          /\ grid.tiles[d].inside_direction = "NotLowerLeft"

SetMin(S) == CHOOSE m \in S : \A n \in S : m <= n

\* C16: in every state no tile, GreenFill or other, lies outside the closed
\* bounding box of the input points, and once the points are inserted the
\* tracked min_x, max_x, min_y, max_y are the extremes of their coordinates.
C16_NothingOutsideBoundingBox ==
    /\ \A c \in DOMAIN grid.tiles : c \in BoxCells(points)
    /\ (pc \in {"connect", "mark", "panicked", "fill", "search", "done"} /\ len > 0) =>
          /\ grid.min_x = SetMin({points[k].x : k \in 1..len})
          /\ grid.max_x = SetMax({points[k].x : k \in 1..len})
          /\ grid.min_y = SetMin({points[k].y : k \in 1..len})
          /\ grid.max_y = SetMax({points[k].y : k \in 1..len})

\* the pipeline has run to its end and fill_in_loops has filled the two
\* opposite corner cells just inside the bounding box
C16_Witness ==
    /\ pc = "done"
    /\ \E c, d \in Filled(grid) :
          /\ c.x = grid.min_x + 1 /\ c.y = grid.min_y + 1
          /\ d.x = grid.max_x - 1 /\ d.y = grid.max_y - 1

\* the pairs of input points that share an x or a y coordinate
SharingPairs ==
    {pr \in Pairs : \/ points[pr[1]].x = points[pr[2]].x
                    \/ points[pr[1]].y = points[pr[2]].y}

\* C17: for all input points A and B, in either order, area_with(A,B) is 0
\* when A and B share an x or a y coordinate and (|A.x-B.x|+1)*(|A.y-B.y|+1)
\* otherwise; a positive result of either search is the area of a pair that
\* differs in x and in y, and a search returns 0 only if no pair with a
\* positive area qualifies (every pair qualifies for the simple search).
\* The coordinates of the model keep every product far below 2^64.
C17_AreaWithZeroOnSharedCoordinate ==
    /\ \A j, k \in 1..len :
          area_with(points[j], points[k]) =
              IF (points[j].x = points[k].x) \/ (points[j].y = points[k].y)
              THEN 0
              ELSE (Abs(points[j].x - points[k].x) + 1)
                       * (Abs(points[j].y - points[k].y) + 1)
    /\ (pc \in {"done", "reported"} /\ max_area > 0) =>
          \E pr \in Pairs \ SharingPairs :
              RectArea(points[pr[1]], points[pr[2]]) = max_area
    /\ (pc = "done" /\ max_area = 0) => Qualifying = {}
    /\ (pc = "reported" /\ max_area = 0) => Pairs = SharingPairs

\* the simple search has returned a positive area; the pair of the first two
\* points shares a coordinate and is compared when the maximum over the later
\* points, already computed by the recursive call, is positive
C17_Witness ==
    /\ pc = "reported"
    /\ max_area > 0
    /\ <<1, 2>> \in SharingPairs
    /\ \E pr \in Pairs \ SharingPairs : pr[1] > 1

\* C18: area_with(A,B) = area_with(B,A) for all input points A and B,
\* whichever of the four relative positions B has with respect to A.
C18_AreaWithSymmetric ==
    \A j, k \in 1..len :
        area_with(points[j], points[k]) = area_with(points[k], points[j])

\* the input holds, for one point A, points to its upper left, upper right,
\* lower left and lower right, and the simple search has paired them all
C18_Witness ==
    /\ pc = "reported"
    /\ \E j \in 1..len :
          /\ \E k \in 1..len : points[k].x < points[j].x /\ points[k].y < points[j].y
          /\ \E k \in 1..len : points[k].x > points[j].x /\ points[k].y < points[j].y
          /\ \E k \in 1..len : points[k].x < points[j].x /\ points[k].y > points[j].y
          /\ \E k \in 1..len : points[k].x > points[j].x /\ points[k].y > points[j].y

\* C19: when find_max_area has returned, its result is the maximum of
\* area_with(A,B) over all unordered pairs of input points, whatever the
\* polygon interior is, and 0 for fewer than 2 points; for the points
\* (7,1),(11,1),(11,7),(9,7),(9,5),(2,5),(2,3),(7,3) it is 50.
C19_SimpleSearchIsMaxOverAllPairs ==
    pc = "reported" =>
        /\ max_area = SetMax({area_with(points[pr[1]], points[pr[2]]) : pr \in Pairs})
        /\ (len < 2) => max_area = 0
        /\ (points = ZigZag) => max_area = 50

\* the simple search has returned 50 for the eight points, a rectangle that
\* the search over filled rectangles rejects
C19_Witness ==
    /\ pc = "reported"
    /\ points = ZigZag
    /\ max_area = 50
    /\ \E pr \in Pairs : /\ area_with(points[pr[1]], points[pr[2]]) = 50
                         /\ pr[1] > 1

\* the steps main can take from one phase to the next
PhaseOrder ==
    {<<"insert", "insert">>, <<"insert", "connect">>, <<"connect", "connect">>,
     <<"connect", "mark">>, <<"mark", "mark">>, <<"mark", "panicked">>,
     <<"mark", "fill">>, <<"fill", "search">>, <<"search", "done">>,
     <<"find_max_area", "reported">>}

\* the bounding extent tracked by the grid
Extent(g) == <<g.min_x, g.max_x, g.min_y, g.max_y>>

\* C20: the pipeline runs boundary materialization (insert, connect), then
\* orientation resolution (mark), then interior classification (fill), then
\* the rectangle search, in this order, each phase writing only what is its
\* own: materialization writes no inside direction and no GreenFill tile,
\* resolution writes inside directions only, classification only adds
\* GreenFill tiles, and the search changes no tile, no inside direction and
\* no bounding extent.
C20_PhasesInOrderSearchReadOnly ==
    [][/\ <<pc, pc'>> \in PhaseOrder
       /\ (pc \in {"insert", "connect"}) =>
             \A c \in DOMAIN grid'.tiles :
                 /\ grid'.tiles[c].color \in {"Red", "Green"}
                 /\ grid'.tiles[c].inside_direction = "Unknown"
       /\ (pc = "mark") =>
             /\ DOMAIN grid'.tiles = DOMAIN grid.tiles
             /\ \A c \in DOMAIN grid.tiles : grid'.tiles[c].color = grid.tiles[c].color
             /\ Extent(grid') = Extent(grid)
       /\ (pc = "fill") =>
             /\ \A c \in DOMAIN grid.tiles :
                   c \in DOMAIN grid'.tiles /\ grid'.tiles[c] = grid.tiles[c]
             /\ \A c \in DOMAIN grid'.tiles \ DOMAIN grid.tiles :
                   grid'.tiles[c] = Tile_new("GreenFill")
             /\ Extent(grid') = Extent(grid)
       /\ (pc \in {"search", "find_max_area"}) => grid' = grid]_vars

\* the search has returned a positive area over a grid that holds Red, Green
\* and GreenFill tiles and resolved inside directions
C20_Witness ==
    /\ pc = "done"
    /\ max_area > 0
    /\ Filled(grid) # {}
    /\ \E c, d \in DOMAIN grid.tiles :
          /\ grid.tiles[c].color = "Red" /\ grid.tiles[c].inside_direction # "Unknown"
          /\ grid.tiles[d].color = "Green"

\* the distances turned to the left and to the right by the first n operations
RECURSIVE SumClicks(_, _)
SumClicks(dir, n) ==
    IF n = 0 THEN 0
    ELSE SumClicks(dir, n - 1) + (IF ops[n][1] = dir THEN ops[n][2] ELSE 0)

\* where a dial of 100 positions started at 50 rests after the first n
\* operations (1000 is a multiple of 100 larger than any sum of the model)
RestsAt(n) == (50 + SumClicks("R", n) + 1000 - SumClicks("L", n)) % 100

\* C21: after any sequence of left and right operations on the dial of 100
\* positions started at 50, the position is (50 + right clicks - left clicks)
\* mod 100 and zero_count is the number of operations so far after which the
\* dial rested at 0; passing through 0, whole turns included, is not counted.
C21_DialPositionAndZeroCount ==
    /\ dial.position = RestsAt(Len(ops))
    /\ dial.zero_count = Cardinality({n \in 1..Len(ops) : RestsAt(n) = 0})

\* three operations of which one came to rest at 0, one passed through 0 in
\* less than a turn and one made more than a whole turn without resting at 0
C21_Witness ==
    /\ Len(ops) = MaxOps
    /\ dial.zero_count = 1
    /\ \E n \in 1..Len(ops) : ops[n][2] >= 100 /\ RestsAt(n) # 0
    /\ \E n \in 1..Len(ops) : /\ ops[n] = <<"L", 55>>
                               /\ RestsAt(n - 1) \in 1..54

\* the digits of the bank, in their order
BankDigits == [n \in 1..Cardinality(DOMAIN bank.joltage_by_idx) |-> bank.joltage_by_idx[n - 1]]

\* the number written with the digits of ds at the increasing positions of sel
RECURSIVE NumberOf(_, _, _)
NumberOf(ds, sel, acc) ==
    IF sel = {} THEN acc
    ELSE LET first == CHOOSE n \in sel : \A m \in sel : n <= m
         IN  NumberOf(ds, sel \ {first}, acc * 10 + ds[first])

\* the numbers that k digits of the bank, kept in their order, can form
Selections(k) ==
    {NumberOf(BankDigits, sel, 0) :
        sel \in {t \in SUBSET (1..Len(BankDigits)) : Cardinality(t) = k}}

\* C22: for a line of decimal digits and a battery_count not larger than the
\* number of digits, max_joltage returns Some(v), v the largest number that
\* battery_count digits of the bank in their original order form; it
\* returns None when battery_count exceeds the number of digits.
C22_MaxJoltageIsLargestSelection ==
    (pc = "returned" /\ \A n \in 1..Len(line) : is_digit(line[n])) =>
        /\ Len(BankDigits) = Len(line)
        /\ \A n \in 1..Len(line) : BankDigits[n] = to_digit(line[n])
        /\ IF battery_count > Len(line)
           THEN joltage = None
           ELSE joltage = Some(SetMax(Selections(battery_count)))

\* the boundary cells (Red or Green tiles) of the grid
IsBoundary(g, x, y) == get_color(g, x, y) \in {"Red", "Green"}

\* the number of maximal contiguous runs of boundary cells among the cells
\* from..to of the row y (horizontal) or of the column x (vertical)
RunsInRow(g, y, from, to) ==
    Cardinality({k \in from..to :
                    /\ IsBoundary(g, k, y)
                    /\ (k = from \/ ~IsBoundary(g, k - 1, y))})
RunsInColumn(g, x, from, to) ==
    Cardinality({k \in from..to :
                    /\ IsBoundary(g, x, k)
                    /\ (k = from \/ ~IsBoundary(g, x, k - 1))})

\* C23: once the boundary is materialized, for every cell of the bounding box
\* each of count_left, count_right, count_up and count_down equals the
\* number of maximal contiguous runs of boundary cells (Red or Green) along
\* its ray, whatever the length and the mix of a run.
C23_CountIsNumberOfRuns ==
    (pc \in {"mark", "fill"} /\ len > 0) =>
        \A x \in grid.min_x..grid.max_x, y \in grid.min_y..grid.max_y :
            /\ count_left(grid, x, y) = RunsInRow(grid, y, 0, x - 1)
            /\ count_right(grid, x, y) = RunsInRow(grid, y, x + 1, grid.max_x)
            /\ count_up(grid, x, y) = RunsInColumn(grid, x, 0, y - 1)
            /\ count_down(grid, x, y) = RunsInColumn(grid, x, y + 1, grid.max_y)

\* the grid without its GreenFill tiles: the grid that fill_in_loops was given
Unfilled(g) ==
    [g EXCEPT !.tiles = [c \in {d \in DOMAIN g.tiles : g.tiles[d].color # "GreenFill"}
                            |-> g.tiles[c]]]

\* the four crossing counts of a cell
Counts(g, x, y) ==
    <<count_left(g, x, y), count_right(g, x, y), count_up(g, x, y), count_down(g, x, y)>>

\* the cells of the bounding box of the grid
GridBox(g) == {Point_new(x, y) : x \in g.min_x..g.max_x, y \in g.min_y..g.max_y}

\* the cells that the rule of the ray-parity pass selects: unclassified, no
\* count zero, at least one count odd
RayParityCells(g) ==
    {c \in GridBox(g) :
        /\ get_color(g, c.x, c.y) = "Other"
        /\ \A n \in 1..4 : Counts(g, c.x, c.y)[n] # 0
        /\ \E n \in 1..4 : Counts(g, c.x, c.y)[n] % 2 = 1}

\* C24: the ray-parity pass of fill_in_loops tags an unclassified cell of the
\* bounding box GreenFill if and only if none of its four counts is zero and
\* at least one is odd; every other cell is left as it was, and the counts
\* of every cell are the same after the pass as before it.
C24_RayParityPass ==
    (pc \in {"fill", "search"} /\ len > 0) =>
        LET before == Unfilled(grid)
            after == ray_parity_pass(before)
        IN  /\ Filled(after) = RayParityCells(before)
            /\ Unfilled(after) = before
            /\ \A c \in GridBox(before) :
                  Counts(after, c.x, c.y) = Counts(before, c.x, c.y)
            /\ (pc = "search") => Filled(after) \subseteq Filled(grid)

\* fill_in_loops has run: the pass has filled a cell, has left unclassified a
\* cell with a ray that crosses nothing although another of its rays has an
\* odd count, and has left unclassified a cell whose four counts are even
C24_Witness ==
    /\ pc = "search"
    /\ RayParityCells(Unfilled(grid)) # {}
    /\ \E c \in GridBox(grid) \ RayParityCells(Unfilled(grid)) :
          /\ get_color(Unfilled(grid), c.x, c.y) = "Other"
          /\ \E n \in 1..4 : Counts(grid, c.x, c.y)[n] = 0
          /\ \E n \in 1..4 : Counts(grid, c.x, c.y)[n] % 2 = 1
    /\ \E c \in GridBox(grid) \ RayParityCells(Unfilled(grid)) :
          /\ get_color(Unfilled(grid), c.x, c.y) = "Other"
          /\ \A n \in 1..4 : Counts(grid, c.x, c.y)[n] # 0

\* the orthogonal neighbours of a cell within the bounding box of the grid
BoxNeighbours(g, c) == {d \in GridBox(g) : Abs(c.x - d.x) + Abs(c.y - d.y) = 1}

\* C25: on completion of the sweep of fill_if_neighbors, every cell of the
\* bounding box that the ray-parity pass left unclassified and that has an
\* orthogonal neighbour within the bounding box filled by the ray-parity pass
\* is GreenFill; no tile that existed before the sweep is changed, and each
\* cell is visited once, in row order: a cell filled by the sweep has a
\* neighbour filled by the pass, or the neighbour to its left or above it,
\* visited before it, was filled by the sweep.
C25_NeighbourSweep ==
    (pc = "search" /\ len > 0) =>
        LET swept_from == ray_parity_pass(Unfilled(grid))
            by_pass == Filled(swept_from)
            by_sweep == Filled(grid) \ by_pass
        IN  /\ grid = fill_if_neighbors(swept_from)
            /\ \A c \in GridBox(swept_from) :
                  (/\ get_color(swept_from, c.x, c.y) = "Other"
                   /\ BoxNeighbours(swept_from, c) \cap by_pass # {}) =>
                      c \in Filled(grid)
            /\ \A c \in DOMAIN swept_from.tiles :
                  c \in DOMAIN grid.tiles /\ grid.tiles[c] = swept_from.tiles[c]
            /\ Extent(grid) = Extent(swept_from)
            /\ by_sweep \subseteq GridBox(swept_from)
            /\ \A c \in by_sweep :
                  \/ BoxNeighbours(swept_from, c) \cap by_pass # {}
                  \/ Point_new(c.x - 1, c.y) \in by_sweep
                  \/ Point_new(c.x, c.y - 1) \in by_sweep

\* fill_in_loops has run and its sweep has filled a cell because of the
\* neighbour to its right and a cell because of the neighbour below it, both
\* filled by the ray-parity pass, the neighbours to the left and above being
\* unfilled
C25_Witness ==
    /\ pc = "search"
    /\ LET by_pass == Filled(ray_parity_pass(Unfilled(grid)))
           by_sweep == Filled(grid) \ by_pass
       IN  /\ \E c \in by_sweep :
                 /\ Point_new(c.x + 1, c.y) \in by_pass
                 /\ Point_new(c.x - 1, c.y) \notin Filled(grid)
                 /\ Point_new(c.x, c.y - 1) \notin Filled(grid)
           /\ \E c \in by_sweep :
                 /\ Point_new(c.x, c.y + 1) \in by_pass
                 /\ Point_new(c.x + 1, c.y) \notin by_pass
                 /\ Point_new(c.x - 1, c.y) \notin Filled(grid)
                 /\ Point_new(c.x, c.y - 1) \notin Filled(grid)

\* the run of main, step by step, ends as the loops of main taken as a whole
RunIsTheRunOfMain ==
    (pc \in {"done", "panicked"}) =>
        run(points, overflow_checks) = [grid |-> grid, panic |-> panic, max_area |-> max_area]

\* the point list with its k-th point repeated once
RepeatAt(pts, k) ==
    [n \in 1..(Len(pts) + 1) |-> IF n <= k THEN pts[n] ELSE pts[n - 1]]

\* the colours of the tiles of a grid
Colours(g) == [c \in DOMAIN g.tiles |-> g.tiles[c].color]

\* C26: when main has ended on a simple rectilinear polygon, the run on the
\* same point list with any one point repeated, the first included,
\* materializes the same cells and ends the same way: without a panic if
\* this run ended without one, with the same colours of all tiles and the
\* same maximum area.
C26_RepeatedVertexChangesNothing ==
    (pc \in {"done", "panicked"} /\ IsSimplePolygon(points)) =>
        \A k \in 1..len :
            LET repeated == RepeatAt(points, k)
                r == run(repeated, overflow_checks)
            IN  /\ Colours(materialize(repeated)) = Colours(materialize(points))
                /\ (r.panic = "none") = (panic = "none")
                /\ (panic = "none") =>
                      /\ Colours(r.grid) = Colours(grid)
                      /\ r.max_area = max_area

\* C27: on a simple rectilinear polygon, every cell that is GreenFill once
\* fill_in_loops has run (ray-parity pass and sweep) is strictly inside the
\* polygon: no cell of the bounding box outside the polygon, such as a cell
\* of a notch whose four rays all hit the boundary, is filled.
C27_NoFalsePositives ==
    (pc \in {"search", "done"} /\ IsSimplePolygon(points)) =>
        Filled(grid) \subseteq InteriorCells(points)

\* C28: on a simple rectilinear polygon, also one with a vertex or an edge
\* on x = 0 or y = 0, no step of the pipeline subtracts 1 from a coordinate
\* that is 0: the run never aborts with an arithmetic overflow.
C28_NoUnderflowAtZero ==
    IsSimplePolygon(points) => panic # "attempt to subtract with overflow"

\* the grid with the inside direction of every tile set to idir
Retag(g, idir) ==
    [g EXCEPT !.tiles = [c \in DOMAIN g.tiles |->
                            [g.tiles[c] EXCEPT !.inside_direction = idir]]]

\* the outcome without the marking loop: fill_in_loops and the search on the
\* materialized grid, all inside directions being idir
Unmarked(idir) == classify_and_search(Retag(materialize(points), idir), points)

\* C29: the marking writes inside directions only: while and after it runs
\* the grid has the cells, the colours and the extent of the materialized
\* grid; and on a simple rectilinear polygon the run ends as it ends without
\* the marking, whatever the inside directions are: no panic, the same
\* colours of all tiles and the same maximum area.
C29_MarkingWritesOnlyDirections ==
    /\ (pc \in {"mark", "panicked", "fill"}) =>
          /\ Colours(grid) = Colours(materialize(points))
          /\ Extent(grid) = Extent(materialize(points))
    /\ (pc \in {"done", "panicked"} /\ IsSimplePolygon(points)) =>
          /\ panic = "none"
          /\ \A idir \in TileDirs :
                /\ Colours(grid) = Colours(Unmarked(idir).grid)
                /\ max_area = Unmarked(idir).max_area

\* what holds of it: the same, for the runs in which the marking returns
MarkingThatReturnsChangesNoOutcome ==
    /\ (pc \in {"mark", "panicked", "fill"}) =>
          /\ Colours(grid) = Colours(materialize(points))
          /\ Extent(grid) = Extent(materialize(points))
    /\ (pc = "done") =>
          \A idir \in TileDirs :
              /\ Colours(grid) = Colours(Unmarked(idir).grid)
              /\ max_area = Unmarked(idir).max_area

\* the point list read from its (s+1)-th point on, and the point list read
\* backwards
Rotation(pts, s) == [n \in 1..Len(pts) |-> pts[((n - 1 + s) % Len(pts)) + 1]]
Reversal(pts) == [n \in 1..Len(pts) |-> pts[Len(pts) + 1 - n]]

\* the ways of writing the same cyclic polygon
Orderings(pts) ==
    {Rotation(pts, s) : s \in 0..(Len(pts) - 1)}
        \cup {Rotation(Reversal(pts), s) : s \in 0..(Len(pts) - 1)}

\* C30: when main has ended on a simple rectilinear polygon, the run on every
\* rotation and on the reversal of the point list ends the same way: with a
\* panic if and only if this run ended with one, and otherwise with the same
\* maximum area.
C30_OutcomeIndependentOfOrdering ==
    (pc \in {"done", "panicked"} /\ IsSimplePolygon(points)) =>
        \A other \in Orderings(points) :
            LET r == run(other, overflow_checks)
            IN  /\ (r.panic = "none") = (panic = "none")
                /\ r.max_area = max_area

====
